---- MODULE Spec2Model ----
(***************************************************************************)
(* The Malphas runtime core (src/runtime/runtime.c): the M:N "infernal"    *)
(* scheduler (worker threads, per-worker run queues, legions) and the      *)
(* blocking channel.  Every OS thread (the workers and one bare thread,    *)
(* the program's main thread) is a small state machine whose steps are the *)
(* shared-memory accesses of the C functions.                              *)
(***************************************************************************)
EXTENDS Integers, Sequences, FiniteSets, TLC

----------------------------------------------------------------------------
(* Sizes.  The program fixes MAX_OS_THREADS = 4 and LEGION_QUEUE_SIZE =    *)
(* 256; the model scales them down.                                        *)

MAX_OS_THREADS == 2
LEGION_QUEUE_SIZE == 2
CAPACITY == 2
MaxEntries == 2

WORK_STEAL_ATTEMPTS == MAX_OS_THREADS - 1

Workers == 0 .. (MAX_OS_THREADS - 1)
MainThread == MAX_OS_THREADS
Threads == 0 .. MAX_OS_THREADS
Legions == {1, 2, 3}
Channels == {1, 2}
NULL == 0
Unlocked == -1

\* stack sizes in bytes
LEGION_STACK_SIZE == 256 * 1024
LEGION_STACK_MAX == 2 * 1024 * 1024

VARIABLES
  th,              \* per OS thread: what it executes and its locals
  lg,              \* per legion: struct Legion
  ch,              \* per channel: struct Channel
  run_queue,       \* g_scheduler->run_queue[t][i]
  queue_head,      \* g_scheduler->queue_head[t]
  queue_tail,      \* g_scheduler->queue_tail[t]
  queue_mutex,     \* holder of g_scheduler->queue_mutex[t]
  current_legion,  \* g_scheduler->current_legion[t]
  active_legions,  \* g_scheduler->active_legions
  prog,            \* the code of the main thread (0) and of each legion
  schedulers,      \* how many Scheduler instances scheduler_init has allocated
  os_threads,      \* how many worker threads scheduler_init has created
  shutdown,        \* g_scheduler->shutdown
  crashed,         \* the process has died (jump through an invalid context)
  ub,              \* some switch through the uninitialised scheduler context happened to land in the worker loop
  entries,         \* history: how often legion_entry was entered per legion
  started,         \* history: legions the program has submitted with start
  enqueued,        \* history: legions some push has written into a run-queue slot
  rlog             \* history: the values returned by recv, in order

vars == << th, lg, ch, run_queue, queue_head, queue_tail, queue_mutex,
           current_legion, active_legions, prog, schedulers, os_threads,
           shutdown, crashed, ub, entries, started, enqueued, rlog >>

----------------------------------------------------------------------------
(* Thread-local worker id.  set_thread_id(i) stores i as a pointer, and   *)
(* get_thread_id reads a NULL slot as "no id".                             *)

thread_local_id(t) == IF t \in Workers THEN t ELSE NULL

get_thread_id(t) == IF thread_local_id(t) = NULL THEN -1 ELSE thread_local_id(t)

valid_thread_id(id) == id >= 0 /\ id < MAX_OS_THREADS

runtime_get_current_legion(t) ==
  IF valid_thread_id(get_thread_id(t)) THEN current_legion[get_thread_id(t)] ELSE NULL

----------------------------------------------------------------------------
(* Run queues *)

\* a faulty variant of queue_full, for the sensitivity check of the queue
\* property: a push that never finds the queue full
queue_never_full(q) == FALSE

\* push_to_local_queue's test: next_tail == head
queue_full(q) == (queue_tail[q] + 1) % LEGION_QUEUE_SIZE = queue_head[q]

get_queue_length(q) ==
  IF queue_tail[q] >= queue_head[q]
    THEN queue_tail[q] - queue_head[q]
    ELSE (LEGION_QUEUE_SIZE - queue_head[q]) + queue_tail[q]

RECURSIVE least_loaded_from(_, _, _)
least_loaded_from(i, best_thread, best_load) ==
  IF i >= MAX_OS_THREADS THEN best_thread
  ELSE IF get_queue_length(i) < best_load
         THEN least_loaded_from(i + 1, i, get_queue_length(i))
         ELSE least_loaded_from(i + 1, best_thread, best_load)

find_least_loaded_thread == least_loaded_from(1, 0, get_queue_length(0))

----------------------------------------------------------------------------
(* Programs: what the main thread and the legions' entry functions do.     *)

Op(o, a, b) == [op |-> o, a |-> a, b |-> b]

Values == 1 .. (CAPACITY + 1)

SendAll(c) == [i \in 1 .. (CAPACITY + 1) |-> Op("send", c, i)]
RecvAll(c) == [i \in 1 .. (CAPACITY + 1) |-> Op("recv", c, 0)]

Program(main, l1, l2, l3) ==
  [i \in {0} \cup Legions |->
     IF i = 0 THEN main ELSE IF i = 1 THEN l1 ELSE IF i = 2 THEN l2 ELSE l3]

\* one legion sends 1 .. CAPACITY + 1 on channel 1, the main thread receives them
ProgFifo ==
  Program(<< Op("start", 1, 0) >> \o RecvAll(1), SendAll(1), << >>, << >>)

\* ping-pong over two channels
ProgPingPong ==
  Program(<< Op("start", 1, 0), Op("start", 2, 0) >>,
          << Op("send", 1, 1), Op("recv", 2, 0) >>,
          << Op("recv", 1, 0), Op("send", 2, 2) >>,
          << >>)

\* three legions submitted in a row: more than the queues hold
ProgOverflow ==
  Program(<< Op("start", 1, 0), Op("start", 2, 0), Op("start", 3, 0) >>,
          << >>, << >>, << >>)

\* a legion that submits another legion while the main thread does too
ProgNested ==
  Program(<< Op("start", 1, 0), Op("start", 2, 0) >>,
          << Op("start", 3, 0) >>, << >>, << >>)

\* a legion that yields once
ProgYield ==
  Program(<< Op("start", 1, 0) >>, << Op("yield", 0, 0) >>, << >>, << >>)

\* a sender legion that fills channel 1 and goes on sending, while the main
\* thread uses the non-blocking operations and closes the channel
ProgClose ==
  Program(<< Op("start", 1, 0), Op("try_send", 1, 9), Op("close", 1, 0),
             Op("try_send", 1, 9), Op("send", 1, 9), Op("recv", 1, 0),
             Op("try_recv", 1, 0) >>,
          SendAll(1), << >>, << >>)

\* two receiver legions on an empty channel that the main thread closes
ProgCloseTwo ==
  Program(<< Op("start", 1, 0), Op("start", 2, 0), Op("close", 1, 0) >>,
          << Op("recv", 1, 0) >>, << Op("recv", 1, 0) >>, << >>)

\* the main thread alone: fill channel 1, close it twice, asking is_closed
\* before, between and after, then receive once more than was sent
ProgDrain ==
  Program([i \in 1 .. CAPACITY |-> Op("send", 1, i)]
            \o << Op("is_closed", 1, 0), Op("close", 1, 0), Op("is_closed", 1, 0),
                  Op("close", 1, 0), Op("is_closed", 1, 0) >>
            \o RecvAll(1),
          << >>, << >>, << >>)

TrySendAll(c) == [i \in 1 .. (CAPACITY + 1) |-> Op("try_send", c, i)]
TryRecvAll(c) == [i \in 1 .. (CAPACITY + 1) |-> Op("try_recv", c, 0)]

\* the main thread alone, non-blocking operations only: on the empty
\* channel, up to full and one more, down to empty and one more, a yield
\* outside any legion, and on the closed channel holding one value
ProgTry ==
  Program(<< Op("try_recv", 1, 0) >> \o TrySendAll(1) \o TryRecvAll(1)
            \o << Op("yield", 0, 0), Op("try_send", 1, 1), Op("close", 1, 0),
                  Op("try_send", 1, 2), Op("try_recv", 1, 0), Op("try_recv", 1, 0) >>,
          << >>, << >>, << >>)

\* scheduler_init called again, twice, after a legion has been submitted
ProgInit ==
  Program(<< Op("start", 1, 0), Op("init", 0, 0), Op("init", 0, 0) >>,
          << >>, << >>, << >>)

\* shutdown with idle workers, with a legion parked on an empty channel, and
\* with a legion that runs to its end
ProgShutIdle == Program(<< Op("shutdown", 0, 0) >>, << >>, << >>, << >>)

ProgShutParked ==
  Program(<< Op("start", 1, 0), Op("shutdown", 0, 0) >>, << Op("recv", 1, 0) >>, << >>, << >>)

ProgShutDies ==
  Program(<< Op("start", 1, 0), Op("shutdown", 0, 0) >>, << >>, << >>, << >>)

\* the stack sizes the spawning programs ask for
StackRequests ==
  { 0, 1, 4096, LEGION_STACK_SIZE - 1, LEGION_STACK_SIZE, LEGION_STACK_SIZE + 1,
    2 * LEGION_STACK_SIZE, LEGION_STACK_MAX - 1, LEGION_STACK_MAX,
    LEGION_STACK_MAX + 1, 2 * LEGION_STACK_MAX }

\* spawn legion 1 and legion 2 anew with the stack sizes s1 and s2
ProgSpawn(s1, s2) ==
  Program(<< Op("spawn", 1, s1), Op("spawn", 2, s2) >>, << >>, << >>, << >>)

\* a sender legion that fills channel 1 and goes on sending, while the main
\* thread takes a value with the non-blocking receive
ProgTryPark ==
  Program(<< Op("start", 1, 0), Op("try_recv", 1, 0) >>, SendAll(1), << >>, << >>)

\* two receiver legions, one after the other, on a channel the main thread
\* feeds first with the non-blocking send and then with send
ProgLifo ==
  Program(<< Op("start", 1, 0), Op("try_send", 1, 1), Op("start", 2, 0), Op("send", 1, 2) >>,
          << Op("recv", 1, 0) >>, << Op("recv", 1, 0) >>, << >>)

\* two legions that call recv on a channel nobody sends on, and a third
\* legion submitted after them
ProgStarve ==
  Program(<< Op("start", 1, 0), Op("start", 2, 0), Op("start", 3, 0) >>,
          << Op("recv", 1, 0) >>, << Op("recv", 1, 0) >>, << >>)

Programs ==
  { ProgFifo, ProgPingPong, ProgOverflow, ProgNested, ProgYield, ProgClose, ProgCloseTwo,
    ProgTryPark, ProgLifo, ProgStarve }

CurOp(t) == prog[th[t].host][th[t].ip]
AtOp(t, o) ==
  /\ ~crashed
  /\ th[t].pc = "op"
  /\ th[t].ip <= Len(prog[th[t].host])
  /\ CurOp(t).op = o

NextOp(r) == [r EXCEPT !.pc = "op", !.ip = @ + 1]

----------------------------------------------------------------------------
(* Initial state: scheduler_init has run, the workers are at the top of    *)
(* their loop, the legions are spawned (not started), channels are new.    *)

NewThread(t) ==
  [ pc   |-> IF t \in Workers THEN "w_top" ELSE "op",
    host |-> 0,       \* 0: own code (worker loop, main program); else the legion whose stack it runs on
    ip   |-> IF t \in Workers THEN 0 ELSE 1,
    legion |-> NULL,  \* the worker loop's local `legion`
    arg  |-> NULL,    \* legion argument of start / push / yield's `current`
    q    |-> 0,       \* queue index local
    snap |-> 0,       \* head or tail snapshot
    k    |-> 0,       \* loop counter
    phase |-> "top",  \* which pop of the worker loop is in progress
    rv   |-> 0,       \* what the last try_send / try_recv / is_closed returned
    out  |-> NULL,    \* the caller's variable that try_recv writes through `value`
    ret  |-> "op",    \* where the running start / push returns to
    yret |-> "op" ]   \* where the running yield returns to

\* the stack size runtime_legion_spawn gives for a request of stack_size bytes
spawn_stack_size(stack_size) ==
  LET defaulted == IF stack_size = 0 THEN LEGION_STACK_SIZE ELSE stack_size
  IN IF defaulted > LEGION_STACK_MAX THEN LEGION_STACK_MAX ELSE defaulted

\* a legion as runtime_legion_spawn returns it
SpawnedLegion(stack_size) ==
  [ state |-> "RUNNABLE", next |-> NULL, blocked_on |-> NULL, thread_id |-> -1,
    stack_size |-> spawn_stack_size(stack_size),
    ctx |-> "fresh", ctx_saved |-> "zero" ]

NewLegion == SpawnedLegion(0)

NewChannel ==
  [ buffer |-> [i \in 0 .. (CAPACITY - 1) |-> 0],
    head |-> 0, tail |-> 0, count |-> 0, closed |-> 0,
    blocked_senders |-> NULL, blocked_receivers |-> NULL,
    mutex |-> Unlocked, not_full |-> {}, not_empty |-> {} ]

InitWith(programs) ==
  /\ th = [t \in Threads |-> NewThread(t)]
  /\ lg = [l \in Legions |-> NewLegion]
  /\ ch = [c \in Channels |-> NewChannel]
  /\ run_queue = [t \in Workers |-> [i \in 0 .. (LEGION_QUEUE_SIZE - 1) |-> NULL]]
  /\ queue_head = [t \in Workers |-> 0]
  /\ queue_tail = [t \in Workers |-> 0]
  /\ queue_mutex = [t \in Workers |-> Unlocked]
  /\ current_legion = [t \in Workers |-> NULL]
  /\ active_legions = 0
  /\ prog \in programs
  /\ schedulers = 1
  /\ os_threads = MAX_OS_THREADS
  /\ shutdown = 0
  /\ crashed = FALSE
  /\ ub = FALSE
  /\ entries = [l \in Legions |-> 0]
  /\ started = {}
  /\ enqueued = {}
  /\ rlog = << >>

Init == InitWith(Programs)

chanVars == << ch, rlog >>
queueVars == << run_queue, queue_head, queue_tail, queue_mutex >>
\* what only scheduler_init and scheduler_shutdown write
fixedVars == << prog, schedulers, os_threads, shutdown >>
histVars == << fixedVars, crashed, ub, entries, started, enqueued >>

Running(t, p) == ~crashed /\ th[t].pc = p

----------------------------------------------------------------------------
(* runtime_scheduler_init, called again by the program *)

\* the guard's faulty variant, for the sensitivity check of idempotence
scheduler_forgotten == FALSE

\* g_scheduler != NULL
scheduler_exists == schedulers # 0

runtime_scheduler_init(t) ==
  /\ AtOp(t, "init")
  /\ IF scheduler_exists
       THEN UNCHANGED << queueVars, current_legion, active_legions, schedulers,
                         os_threads, shutdown >>
       ELSE \* a new Scheduler and MAX_OS_THREADS more worker threads
            /\ schedulers' = schedulers + 1
            /\ os_threads' = os_threads + MAX_OS_THREADS
            /\ active_legions' = 0
            /\ shutdown' = 0
            /\ queue_head' = [q \in Workers |-> 0]
            /\ queue_tail' = [q \in Workers |-> 0]
            /\ queue_mutex' = [q \in Workers |-> Unlocked]
            /\ current_legion' = [q \in Workers |-> NULL]
            /\ UNCHANGED run_queue
  /\ th' = [th EXCEPT ![t] = NextOp(@)]
  /\ UNCHANGED << lg, chanVars, prog, crashed, ub, entries, started, enqueued >>

----------------------------------------------------------------------------
(* runtime_legion_spawn *)

runtime_legion_spawn(t) ==
  /\ AtOp(t, "spawn")
  /\ lg' = [lg EXCEPT ![CurOp(t).a] = SpawnedLegion(CurOp(t).b)]
  /\ th' = [th EXCEPT ![t] = NextOp(@)]
  /\ UNCHANGED << chanVars, queueVars, current_legion, active_legions, histVars >>

----------------------------------------------------------------------------
(* runtime_scheduler_shutdown *)

\* set the flag (no condition variable is signalled), then join
runtime_scheduler_shutdown(t) ==
  /\ AtOp(t, "shutdown")
  /\ IF scheduler_exists
       THEN /\ shutdown' = 1
            /\ th' = [th EXCEPT ![t] = [@ EXCEPT !.pc = "join", !.k = 0]]
       ELSE /\ UNCHANGED shutdown
            /\ th' = [th EXCEPT ![t] = NextOp(@)]
  /\ UNCHANGED << lg, chanVars, queueVars, current_legion, active_legions,
                  prog, schedulers, os_threads, crashed, ub, entries, started, enqueued >>

\* pthread_join(threads[k]) returns once worker k has returned from
\* runtime_scheduler_run; after the last one the mutexes and condition
\* variables are destroyed, which no later step of the model reads
shutdown_join(t) ==
  /\ Running(t, "join")
  /\ th[th[t].k].pc = "w_exit"
  /\ th' = [th EXCEPT ![t] = IF th[t].k + 1 < MAX_OS_THREADS
                                THEN [@ EXCEPT !.k = @ + 1]
                                ELSE NextOp(@)]
  /\ UNCHANGED << lg, chanVars, queueVars, current_legion, active_legions, histVars >>

----------------------------------------------------------------------------
(* The jump through g_scheduler_context.  set_scheduler_context copies the  *)
(* worker's uninitialised local scheduler_ctx into the thread-local        *)
(* g_scheduler_context once, before any switch has filled the local in;    *)
(* dispatch saves into the local, yield and death load the thread-local.   *)
(* The jump is through an indeterminate context: the process dies, or the  *)
(* thread happens to land where the worker's dispatch switch returns.      *)

SwitchOutcomes == {"crash", "sched"}

switch_to_scheduler_context(t, out) ==
  IF out = "crash"
    THEN /\ crashed' = TRUE
         /\ UNCHANGED << th, ub >>
    ELSE /\ th' = [th EXCEPT ![t] = [@ EXCEPT !.pc = "w_after", !.host = 0, !.ip = 0]]
         /\ ub' = TRUE
         /\ UNCHANGED crashed

----------------------------------------------------------------------------
(* runtime_legion_start and push_to_local_queue *)

\* start up to the first half of push_to_local_queue: choose the queue,
\* load its tail and test for full
start_call(r, legion, ret) ==
  LET queue_idx == find_least_loaded_thread IN
    [r EXCEPT !.arg = legion, !.q = queue_idx, !.snap = queue_tail[queue_idx],
              !.ret = ret,
              !.pc = IF queue_full(queue_idx) THEN "start_slow" ELSE "push_write"]

start_return(r) ==
  IF r.ret = "op" THEN NextOp(r)
  ELSE IF r.ret = "send" THEN [r EXCEPT !.pc = "send_fin"]
  ELSE [r EXCEPT !.pc = "recv_fin"]

\* the program calls runtime_legion_start(legion)
runtime_legion_start(t) ==
  /\ AtOp(t, "start")
  /\ th' = [th EXCEPT ![t] = start_call(@, CurOp(t).a, "op")]
  /\ active_legions' = active_legions + 1
  /\ started' = started \cup {CurOp(t).a}
  /\ UNCHANGED << lg, chanVars, queueVars, current_legion, fixedVars, crashed, ub, entries,
                  enqueued >>

\* second half of push_to_local_queue: write the slot, publish the tail
push_to_local_queue(t) ==
  /\ Running(t, "push_write")
  /\ run_queue' = [run_queue EXCEPT ![th[t].q][th[t].snap] = th[t].arg]
  /\ queue_tail' = [queue_tail EXCEPT ![th[t].q] = (th[t].snap + 1) % LEGION_QUEUE_SIZE]
  /\ th' = [th EXCEPT ![t].pc = IF th[t].ret = "yield" THEN "yield_fin" ELSE "start_signal"]
  /\ enqueued' = enqueued \cup {th[t].arg}
  /\ UNCHANGED << lg, chanVars, queue_head, queue_mutex, current_legion,
                  active_legions, fixedVars, crashed, ub, entries, started >>

\* start after a successful push: lock the queue mutex, signal, unlock
start_signal(t) ==
  /\ Running(t, "start_signal")
  /\ queue_mutex[th[t].q] = Unlocked
  /\ th' = [th EXCEPT ![t] = start_return(@)]
  /\ UNCHANGED << lg, chanVars, queueVars, current_legion, active_legions, histVars >>

\* start after a failed push: the mutex path
start_slow(t) ==
  /\ Running(t, "start_slow")
  /\ queue_mutex[th[t].q] = Unlocked
  /\ LET q == th[t].q
         tail == queue_tail[q]
         next_tail == (tail + 1) % LEGION_QUEUE_SIZE
     IN IF next_tail # queue_head[q]
          THEN /\ run_queue' = [run_queue EXCEPT ![q][tail] = th[t].arg]
               /\ queue_tail' = [queue_tail EXCEPT ![q] = next_tail]
               /\ enqueued' = enqueued \cup {th[t].arg}
          ELSE UNCHANGED << run_queue, queue_tail, enqueued >>
  /\ th' = [th EXCEPT ![t] = start_return(@)]
  /\ UNCHANGED << lg, chanVars, queue_head, queue_mutex, current_legion,
                  active_legions, fixedVars, crashed, ub, entries, started >>

----------------------------------------------------------------------------
(* runtime_legion_yield *)

yield_return(r) ==
  IF r.yret = "op" THEN NextOp(r)
  ELSE IF r.yret = "send" THEN [r EXCEPT !.pc = "send_relock"]
  ELSE [r EXCEPT !.pc = "recv_relock"]

\* the queue yield pushes to: the local one, else the first other queue
\* with room, else none (-1)
yield_queue(thread_id) ==
  IF ~queue_full(thread_id) THEN thread_id
  ELSE IF \E i \in Workers : i # thread_id /\ ~queue_full(i)
         THEN CHOOSE i \in Workers :
                /\ i # thread_id /\ ~queue_full(i)
                /\ \A j \in Workers : (j # thread_id /\ ~queue_full(j)) => i <= j
         ELSE -1

\* the program calls runtime_legion_yield()
yield_op(t) ==
  /\ AtOp(t, "yield")
  /\ th' = [th EXCEPT ![t] = [@ EXCEPT !.pc = "yield", !.yret = "op"]]
  /\ UNCHANGED << lg, chanVars, queueVars, current_legion, active_legions, histVars >>

yield_overlooks_empty_slot(t) == ~valid_thread_id(get_thread_id(t))

\* yield's two early returns: no worker id, or no legion in the worker's slot
yield_returns_early(t) ==
  \/ ~valid_thread_id(get_thread_id(t))
  \/ current_legion[get_thread_id(t)] = NULL

\* yield up to the first half of the push
runtime_legion_yield(t) ==
  /\ Running(t, "yield")
  /\ LET thread_id == get_thread_id(t) IN
       IF yield_returns_early(t)
         THEN /\ th' = [th EXCEPT ![t] = yield_return(@)]
              /\ UNCHANGED lg
         ELSE LET current == current_legion[thread_id]
                  q == yield_queue(thread_id)
              IN /\ lg' = [lg EXCEPT ![current].state = "RUNNABLE"]
                 /\ th' = [th EXCEPT ![t] =
                      IF q = -1
                        THEN [@ EXCEPT !.arg = current, !.pc = "yield_fin"]
                        ELSE [@ EXCEPT !.arg = current, !.q = q, !.snap = queue_tail[q],
                                       !.ret = "yield", !.pc = "push_write"]]
  /\ UNCHANGED << chanVars, queueVars, current_legion, active_legions, histVars >>

\* yield after the push: clear the slot and switch away
yield_switch(t) ==
  /\ Running(t, "yield_fin")
  /\ LET thread_id == get_thread_id(t)
         current == th[t].arg
     IN /\ current_legion' = [current_legion EXCEPT ![thread_id] = NULL]
        /\ lg' = [lg EXCEPT ![current].thread_id = -1, ![current].ctx_saved = "yield"]
  /\ \E out \in SwitchOutcomes : switch_to_scheduler_context(t, out)
  /\ UNCHANGED << chanVars, queueVars, active_legions, fixedVars, entries, started, enqueued >>

----------------------------------------------------------------------------
(* legion_entry: the entry function has returned *)

\* fn has returned: mark the legion dead and clear the slot of the worker
\* legion->thread_id names
legion_entry(t) ==
  /\ Running(t, "op")
  /\ th[t].host # 0
  /\ th[t].ip > Len(prog[th[t].host])
  /\ LET legion == th[t].host
         thread_id == lg[legion].thread_id
     IN /\ lg' = [lg EXCEPT ![legion].state = "DEAD",
                            ![legion].thread_id = IF valid_thread_id(thread_id) THEN -1 ELSE @]
        /\ current_legion' = IF valid_thread_id(thread_id)
                               THEN [current_legion EXCEPT ![thread_id] = NULL]
                               ELSE current_legion
  /\ active_legions' = active_legions - 1
  /\ th' = [th EXCEPT ![t].pc = "dead_switch"]
  /\ UNCHANGED << chanVars, queueVars, histVars >>

\* the one-way switch out of the dead legion
legion_exit(t) ==
  /\ Running(t, "dead_switch")
  /\ lg' = [lg EXCEPT ![th[t].host].ctx = "dead"]
  /\ \E out \in SwitchOutcomes : switch_to_scheduler_context(t, out)
  /\ UNCHANGED << chanVars, queueVars, current_legion, active_legions, fixedVars,
                  entries, started, enqueued >>

----------------------------------------------------------------------------
(* runtime_scheduler_run: the worker loop *)

\* a faulty variant of steal_victim, for the sensitivity check of the loop
\* order: a worker that steals from its own queue
steal_victim_self(thread_id, attempt) == thread_id

\* the queue the steal loop tries at its attempt-th turn
steal_victim(thread_id, attempt) == (thread_id + attempt + 1) % MAX_OS_THREADS

after_steal_miss(r) ==
  IF r.k + 1 < WORK_STEAL_ATTEMPTS
    THEN [r EXCEPT !.k = @ + 1, !.pc = "w_steal"]
    ELSE [r EXCEPT !.pc = "w_park"]

\* pop_from_local_queue, first half: load head and tail, read the slot
pop_read(r, t, phase, miss) ==
  IF queue_head[t] = queue_tail[t]
    THEN miss
    ELSE [r EXCEPT !.legion = run_queue[t][queue_head[t]], !.snap = queue_head[t],
                   !.phase = phase, !.pc = "w_pop_store"]

\* the loop condition fails: the worker returns from runtime_scheduler_run
worker_exit(t) ==
  /\ Running(t, "w_top")
  /\ shutdown # 0
  /\ th' = [th EXCEPT ![t].pc = "w_exit"]
  /\ UNCHANGED << lg, chanVars, queueVars, current_legion, active_legions, histVars >>

\* 1. the loop condition holds: local pop
worker_pop(t) ==
  /\ Running(t, "w_top")
  /\ shutdown = 0
  /\ th' = [th EXCEPT ![t] =
              pop_read(@, t, "top", [@ EXCEPT !.legion = NULL, !.k = 0, !.pc = "w_steal"])]
  /\ UNCHANGED << lg, chanVars, queueVars, current_legion, active_legions, histVars >>

\* a faulty variant of queue_mutex_after_pop, for the sensitivity check of
\* the lock order: a park section that forgets its unlock
queue_mutex_kept_after_pop(t) == queue_mutex[t]

\* the holder of worker t's queue mutex when t goes on to dispatch: the pop
\* at the top of the loop takes no mutex, the park section unlocks its own
queue_mutex_after_pop(t) == IF th[t].phase = "top" THEN queue_mutex[t] ELSE Unlocked

\* pop_from_local_queue, second half: store head + 1 (and leave the park
\* section when the pop was made there)
pop_from_local_queue(t) ==
  /\ Running(t, "w_pop_store")
  /\ queue_head' = [queue_head EXCEPT ![t] = (th[t].snap + 1) % LEGION_QUEUE_SIZE]
  /\ queue_mutex' = [queue_mutex EXCEPT ![t] = queue_mutex_after_pop(t)]
  /\ th' = [th EXCEPT ![t].pc = "w_dispatch"]
  /\ UNCHANGED << lg, chanVars, run_queue, queue_tail, current_legion,
                  active_legions, histVars >>

\* 2. steal_from_queue, first half: snapshot the victim's head and tail
steal_read(t) ==
  /\ Running(t, "w_steal")
  /\ LET victim == steal_victim(t, th[t].k) IN
       th' = [th EXCEPT ![t] =
                IF queue_head[victim] = queue_tail[victim]
                  THEN after_steal_miss(@)
                  ELSE [@ EXCEPT !.snap = queue_head[victim], !.pc = "w_steal_cas"]]
  /\ UNCHANGED << lg, chanVars, queueVars, current_legion, active_legions, histVars >>

\* steal_from_queue, second half: compare-and-swap the head
steal_from_queue(t) ==
  /\ Running(t, "w_steal_cas")
  /\ LET victim == steal_victim(t, th[t].k) IN
       IF queue_head[victim] = th[t].snap
         THEN /\ queue_head' = [queue_head EXCEPT ![victim] = (th[t].snap + 1) % LEGION_QUEUE_SIZE]
              /\ th' = [th EXCEPT ![t] = [@ EXCEPT !.legion = run_queue[victim][th[t].snap],
                                                    !.pc = "w_dispatch"]]
         ELSE /\ UNCHANGED queue_head
              /\ th' = [th EXCEPT ![t] = after_steal_miss(@)]
  /\ UNCHANGED << lg, chanVars, run_queue, queue_tail, queue_mutex, current_legion,
                  active_legions, histVars >>

\* 3. park: lock the queue mutex, pop again, else wait on the condition
worker_park(t) ==
  /\ Running(t, "w_park")
  /\ queue_mutex[t] = Unlocked
  /\ th' = [th EXCEPT ![t] = pop_read(@, t, "park", [@ EXCEPT !.pc = "w_wait"])]
  /\ queue_mutex' = IF queue_head[t] = queue_tail[t] THEN queue_mutex
                    ELSE [queue_mutex EXCEPT ![t] = t]
  /\ UNCHANGED << lg, chanVars, run_queue, queue_head, queue_tail, current_legion,
                  active_legions, histVars >>

\* pthread_cond_timedwait returns (signal or the 10 ms timeout) with the
\* mutex held; pop once more, unlock
worker_wake(t) ==
  /\ Running(t, "w_wait")
  /\ queue_mutex[t] = Unlocked
  /\ th' = [th EXCEPT ![t] = pop_read(@, t, "wake", [@ EXCEPT !.legion = NULL, !.pc = "w_top"])]
  /\ queue_mutex' = IF queue_head[t] = queue_tail[t] THEN queue_mutex
                    ELSE [queue_mutex EXCEPT ![t] = t]
  /\ UNCHANGED << lg, chanVars, run_queue, queue_head, queue_tail, current_legion,
                  active_legions, histVars >>

\* 4. dispatch: switch from the local scheduler_ctx into legion->ctx
worker_dispatch(t) ==
  /\ Running(t, "w_dispatch")
  /\ (th[t].legion # NULL /\ lg[th[t].legion].state = "RUNNABLE")
        => entries[th[t].legion] < MaxEntries
  /\ LET legion == th[t].legion IN
       IF legion # NULL /\ lg[legion].state = "RUNNABLE"
         THEN /\ current_legion' = [current_legion EXCEPT ![t] = legion]
              /\ lg' = [lg EXCEPT ![legion].thread_id = t, ![legion].state = "RUNNING"]
              /\ IF lg[legion].ctx = "fresh"
                   THEN /\ th' = [th EXCEPT ![t] = [@ EXCEPT !.host = legion, !.ip = 1, !.pc = "op"]]
                        /\ entries' = [entries EXCEPT ![legion] = @ + 1]
                        /\ UNCHANGED crashed
                   ELSE \* the context saved by the death switch: it returns
                        \* through the trampoline's frame into nothing
                        /\ crashed' = TRUE
                        /\ UNCHANGED << th, entries >>
         ELSE /\ th' = [th EXCEPT ![t].pc = "w_top"]
              /\ UNCHANGED << lg, current_legion, crashed, entries >>
  /\ UNCHANGED << chanVars, queueVars, active_legions, fixedVars, ub, started, enqueued >>

\* the dispatch switch has returned
worker_after_switch(t) ==
  /\ Running(t, "w_after")
  /\ LET legion == th[t].legion IN
       IF current_legion[t] = legion
         THEN /\ current_legion' = [current_legion EXCEPT ![t] = NULL]
              /\ lg' = [lg EXCEPT ![legion].thread_id = -1]
         ELSE UNCHANGED << current_legion, lg >>
  /\ th' = [th EXCEPT ![t].pc = "w_top"]
  /\ UNCHANGED << chanVars, queueVars, active_legions, histVars >>

----------------------------------------------------------------------------
(* runtime_legion_block and unblock_legion_from_channel, on the legions    *)

runtime_legion_block(l, legion, channel) ==
  [l EXCEPT ![legion].thread_id = -1, ![legion].state = "BLOCKED",
            ![legion].blocked_on = channel]

unblock_keeps_blocked_on(l, legion) == [l EXCEPT ![legion].state = "RUNNABLE"]

unblock_legion_from_channel(l, legion) ==
  [l EXCEPT ![legion].state = "RUNNABLE", ![legion].blocked_on = NULL]

----------------------------------------------------------------------------
(* Channels.  A critical section that neither waits nor calls start is one *)
(* step; pthread_cond_wait leaves the thread in the condition's wait set.  *)

\* the wait sets pthread_cond_signal can leave behind
cond_signal(waiters) == IF waiters = {} THEN { {} } ELSE { waiters \ {w} : w \in waiters }

OpChannel(t) == CurOp(t).a

\* faulty variants of the two tests below, for the sensitivity checks of the
\* channel properties: a send that overlooks the closed flag, a try_send
\* that overlooks a full buffer
send_overlooks_closed(C) == FALSE

try_send_overlooks_full(C) == C.closed # 0

\* runtime_channel_send's test after its wait loop: closed, give up
send_sees_closed(C) == C.closed # 0

\* runtime_channel_try_send's two refusals: closed, or full
try_send_refused(C) == C.closed # 0 \/ C.count >= CAPACITY

\* faulty variants of the four definitions below, for the sensitivity checks:
\* a try_send that forgets count++, a try_recv that nulls the caller's
\* variable whenever it fails, a close that flips the flag, a recv that
\* waits for data on a closed channel as on an open one
try_send_count_kept(C) == C.count

try_recv_always_nulls(C, out) == NULL

close_toggles(C) == 1 - C.closed

recv_waits_when_closed(C) == C.count = 0

\* count after runtime_channel_try_send has stored
try_send_count(C) == C.count + 1

\* the caller's variable after a try_recv that found nothing: untouched on
\* an open channel, nulled on a closed one
try_recv_empty_out(C, out) == IF C.closed = 0 THEN out ELSE NULL

\* what runtime_channel_close stores in the closed flag
close_stores(C) == 1

\* a faulty variant of channel_closed, for the sensitivity check of close's
\* frame: a close that also empties the two park lists
channel_closed_unlinks(C) ==
  [C EXCEPT !.closed = close_stores(C), !.not_full = {}, !.not_empty = {},
            !.blocked_senders = NULL, !.blocked_receivers = NULL]

\* the channel after runtime_channel_close: the flag stored, both condition
\* variables broadcast
channel_closed(C) ==
  [C EXCEPT !.closed = close_stores(C), !.not_full = {}, !.not_empty = {}]

\* the condition of runtime_channel_recv's wait loop
recv_must_wait(C) == C.count = 0 /\ C.closed = 0

\* a faulty variant of ring_next, for the sensitivity check of the ring
\* property: an index that is never advanced
ring_next_stuck(i) == i

\* the successor of a buffer index: (i + 1) % ch->capacity
ring_next(i) == (i + 1) % CAPACITY

\* the conversion (int8_t)x of an int
int8_t(x) == ((x + 128) % 256) - 128

mutex_kept_over_park(t) == t

\* the holder of the channel mutex when a parking legion calls yield:
\* pthread_mutex_unlock comes between runtime_legion_block and the yield
mutex_after_park(t) == Unlocked

InSend(t) ==
  /\ ~crashed
  /\ \/ AtOp(t, "send")
     \/ th[t].pc = "send_relock"
     \/ th[t].pc = "send_wait" /\ t \notin ch[OpChannel(t)].not_full
  /\ ch[OpChannel(t)].mutex = Unlocked

InRecv(t) ==
  /\ ~crashed
  /\ \/ AtOp(t, "recv")
     \/ th[t].pc = "recv_relock"
     \/ th[t].pc = "recv_wait" /\ t \notin ch[OpChannel(t)].not_empty
  /\ ch[OpChannel(t)].mutex = Unlocked

\* runtime_channel_send from taking the mutex (at entry, after the yield
\* or after pthread_cond_wait) to the next point where it lets go of it
runtime_channel_send(t) ==
  /\ InSend(t)
  /\ LET c == OpChannel(t)
         C == ch[c]
         current == runtime_get_current_legion(t)
         stored == [C EXCEPT !.buffer[C.tail] = CurOp(t).b,
                             !.tail = ring_next(C.tail),
                             !.count = @ + 1]
         receiver == C.blocked_receivers
     IN IF C.count >= CAPACITY /\ C.closed = 0
          THEN IF current # NULL
                 THEN \* park: link, block, unlock; the yield follows
                      /\ ch' = [ch EXCEPT ![c].blocked_senders = current,
                                           ![c].mutex = mutex_after_park(t)]
                      /\ lg' = runtime_legion_block(
                                 [lg EXCEPT ![current].next = C.blocked_senders], current, c)
                      /\ current_legion' = [current_legion EXCEPT ![get_thread_id(t)] = NULL]
                      /\ active_legions' = active_legions - 1
                      /\ th' = [th EXCEPT ![t] = [@ EXCEPT !.pc = "yield", !.yret = "send"]]
                      /\ UNCHANGED queueVars
                 ELSE \* pthread_cond_wait(&ch->not_full, &ch->mutex)
                      /\ ch' = [ch EXCEPT ![c].not_full = @ \cup {t}]
                      /\ th' = [th EXCEPT ![t].pc = "send_wait"]
                      /\ UNCHANGED << lg, current_legion, active_legions, queueVars >>
          ELSE IF send_sees_closed(C)
                 THEN /\ th' = [th EXCEPT ![t] = NextOp(@)]
                      /\ UNCHANGED << ch, lg, current_legion, active_legions, queueVars >>
          ELSE IF receiver # NULL /\ lg[receiver].state = "BLOCKED"
                 THEN \* unblock the receiver and call start with the mutex held
                      /\ ch' = [ch EXCEPT ![c] = [stored EXCEPT !.blocked_receivers = lg[receiver].next,
                                                                 !.mutex = t]]
                      /\ lg' = unblock_legion_from_channel(
                                 [lg EXCEPT ![receiver].next = NULL], receiver)
                      /\ active_legions' = active_legions + 2
                      /\ th' = [th EXCEPT ![t] = start_call(@, receiver, "send")]
                      /\ UNCHANGED << current_legion, queueVars >>
          ELSE /\ \E ne \in cond_signal(C.not_empty) :
                    ch' = [ch EXCEPT ![c] =
                             [stored EXCEPT !.not_empty = ne,
                                            !.blocked_receivers =
                                               IF receiver # NULL THEN lg[receiver].next ELSE NULL]]
               /\ lg' = IF receiver # NULL THEN [lg EXCEPT ![receiver].next = NULL] ELSE lg
               /\ th' = [th EXCEPT ![t] = NextOp(@)]
               /\ UNCHANGED << current_legion, active_legions, queueVars >>
  /\ UNCHANGED << rlog, histVars >>

\* send after start has returned: signal not_empty, unlock
send_finish(t) ==
  /\ Running(t, "send_fin")
  /\ LET c == OpChannel(t) IN
       \E ne \in cond_signal(ch[c].not_empty) :
          ch' = [ch EXCEPT ![c].not_empty = ne, ![c].mutex = Unlocked]
  /\ th' = [th EXCEPT ![t] = NextOp(@)]
  /\ UNCHANGED << lg, rlog, queueVars, current_legion, active_legions, histVars >>

runtime_channel_recv(t) ==
  /\ InRecv(t)
  /\ LET c == OpChannel(t)
         C == ch[c]
         current == runtime_get_current_legion(t)
         taken == [C EXCEPT !.head = ring_next(C.head), !.count = @ - 1]
         sender == C.blocked_senders
     IN IF recv_must_wait(C)
          THEN IF current # NULL
                 THEN /\ ch' = [ch EXCEPT ![c].blocked_receivers = current,
                                           ![c].mutex = mutex_after_park(t)]
                      /\ lg' = runtime_legion_block(
                                 [lg EXCEPT ![current].next = C.blocked_receivers], current, c)
                      /\ current_legion' = [current_legion EXCEPT ![get_thread_id(t)] = NULL]
                      /\ active_legions' = active_legions - 1
                      /\ th' = [th EXCEPT ![t] = [@ EXCEPT !.pc = "yield", !.yret = "recv"]]
                      /\ UNCHANGED << queueVars, rlog >>
                 ELSE /\ ch' = [ch EXCEPT ![c].not_empty = @ \cup {t}]
                      /\ th' = [th EXCEPT ![t].pc = "recv_wait"]
                      /\ UNCHANGED << lg, current_legion, active_legions, queueVars, rlog >>
          ELSE IF C.count = 0 /\ C.closed # 0
                 THEN /\ th' = [th EXCEPT ![t] = NextOp(@)]
                      /\ rlog' = Append(rlog, NULL)
                      /\ UNCHANGED << ch, lg, current_legion, active_legions, queueVars >>
          ELSE IF sender # NULL /\ lg[sender].state = "BLOCKED"
                 THEN /\ ch' = [ch EXCEPT ![c] = [taken EXCEPT !.blocked_senders = lg[sender].next,
                                                                !.mutex = t]]
                      /\ lg' = unblock_legion_from_channel(
                                 [lg EXCEPT ![sender].next = NULL], sender)
                      /\ active_legions' = active_legions + 2
                      /\ th' = [th EXCEPT ![t] = start_call(@, sender, "recv")]
                      /\ rlog' = Append(rlog, C.buffer[C.head])
                      /\ UNCHANGED << current_legion, queueVars >>
          ELSE /\ \E nf \in cond_signal(C.not_full) :
                    ch' = [ch EXCEPT ![c] =
                             [taken EXCEPT !.not_full = nf,
                                           !.blocked_senders =
                                              IF sender # NULL THEN lg[sender].next ELSE NULL]]
               /\ lg' = IF sender # NULL THEN [lg EXCEPT ![sender].next = NULL] ELSE lg
               /\ th' = [th EXCEPT ![t] = NextOp(@)]
               /\ rlog' = Append(rlog, C.buffer[C.head])
               /\ UNCHANGED << current_legion, active_legions, queueVars >>
  /\ UNCHANGED histVars

recv_finish(t) ==
  /\ Running(t, "recv_fin")
  /\ LET c == OpChannel(t) IN
       \E nf \in cond_signal(ch[c].not_full) :
          ch' = [ch EXCEPT ![c].not_full = nf, ![c].mutex = Unlocked]
  /\ th' = [th EXCEPT ![t] = NextOp(@)]
  /\ UNCHANGED << lg, rlog, queueVars, current_legion, active_legions, histVars >>

runtime_channel_close(t) ==
  /\ AtOp(t, "close")
  /\ ch[OpChannel(t)].mutex = Unlocked
  /\ ch' = [ch EXCEPT ![OpChannel(t)] = channel_closed(ch[OpChannel(t)])]
  /\ th' = [th EXCEPT ![t] = NextOp(@)]
  /\ UNCHANGED << lg, rlog, queueVars, current_legion, active_legions, histVars >>

\* runtime_channel_is_closed: one atomic load, no lock
runtime_channel_is_closed(t) ==
  /\ AtOp(t, "is_closed")
  /\ th' = [th EXCEPT ![t] = [NextOp(@) EXCEPT !.rv = int8_t(ch[OpChannel(t)].closed)]]
  /\ UNCHANGED << lg, chanVars, queueVars, current_legion, active_legions, histVars >>

runtime_channel_try_send(t) ==
  /\ AtOp(t, "try_send")
  /\ ch[OpChannel(t)].mutex = Unlocked
  /\ LET c == OpChannel(t)
         C == ch[c]
     IN IF try_send_refused(C)
          THEN /\ UNCHANGED ch
               /\ th' = [th EXCEPT ![t] = [NextOp(@) EXCEPT !.rv = 0]]
          ELSE /\ \E ne \in cond_signal(C.not_empty) :
                    ch' = [ch EXCEPT ![c] = [C EXCEPT !.buffer[C.tail] = CurOp(t).b,
                                                       !.tail = ring_next(C.tail),
                                                       !.count = try_send_count(C),
                                                       !.not_empty = ne]]
               /\ th' = [th EXCEPT ![t] = [NextOp(@) EXCEPT !.rv = 1]]
  /\ UNCHANGED << lg, rlog, queueVars, current_legion, active_legions, histVars >>

runtime_channel_try_recv(t) ==
  /\ AtOp(t, "try_recv")
  /\ ch[OpChannel(t)].mutex = Unlocked
  /\ LET c == OpChannel(t)
         C == ch[c]
     IN IF C.count = 0
          THEN /\ UNCHANGED ch
               /\ th' = [th EXCEPT ![t] =
                           [NextOp(@) EXCEPT !.rv = 0, !.out = try_recv_empty_out(C, @)]]
          ELSE /\ \E nf \in cond_signal(C.not_full) :
                    ch' = [ch EXCEPT ![c] = [C EXCEPT !.head = ring_next(C.head),
                                                       !.count = @ - 1,
                                                       !.not_full = nf]]
               /\ th' = [th EXCEPT ![t] =
                           [NextOp(@) EXCEPT !.rv = 1, !.out = C.buffer[C.head]]]
  /\ UNCHANGED << lg, rlog, queueVars, current_legion, active_legions, histVars >>

----------------------------------------------------------------------------

Next ==
  \/ \E t \in Threads :
       \/ runtime_legion_start(t)
       \/ push_to_local_queue(t)
       \/ start_signal(t)
       \/ start_slow(t)
       \/ yield_op(t)
       \/ runtime_legion_yield(t)
       \/ yield_switch(t)
       \/ legion_entry(t)
       \/ legion_exit(t)
       \/ runtime_channel_send(t)
       \/ send_finish(t)
       \/ runtime_channel_recv(t)
       \/ recv_finish(t)
       \/ runtime_channel_close(t)
       \/ runtime_channel_try_send(t)
       \/ runtime_channel_try_recv(t)
  \/ \E t \in Workers :
       \/ worker_pop(t)
       \/ pop_from_local_queue(t)
       \/ steal_read(t)
       \/ steal_from_queue(t)
       \/ worker_park(t)
       \/ worker_wake(t)
       \/ worker_dispatch(t)
       \/ worker_after_switch(t)

Spec == Init /\ [][Next]_vars

\* the programs that never yield from a legion, never overflow a run queue
\* and never wake a parked receiver, under the actions they use
InitChan == InitWith({ ProgClose, ProgDrain, ProgTry, ProgInit })

NextChan ==
  \/ \E t \in Threads :
       \/ runtime_scheduler_init(t)
       \/ runtime_legion_start(t)
       \/ push_to_local_queue(t)
       \/ start_signal(t)
       \/ yield_op(t)
       \/ runtime_legion_yield(t)
       \/ legion_entry(t)
       \/ legion_exit(t)
       \/ runtime_channel_send(t)
       \/ runtime_channel_recv(t)
       \/ recv_finish(t)
       \/ runtime_channel_close(t)
       \/ runtime_channel_is_closed(t)
       \/ runtime_channel_try_send(t)
       \/ runtime_channel_try_recv(t)
  \/ \E t \in Workers :
       \/ worker_pop(t)
       \/ pop_from_local_queue(t)
       \/ steal_read(t)
       \/ steal_from_queue(t)
       \/ worker_park(t)
       \/ worker_wake(t)
       \/ worker_dispatch(t)
       \/ worker_after_switch(t)

SpecChan == InitChan /\ [][NextChan]_vars

\* the programs that shut the scheduler down, under the actions they use
InitShut == InitWith({ ProgShutIdle, ProgShutParked, ProgShutDies })

NextShut ==
  \/ \E t \in Threads :
       \/ runtime_scheduler_shutdown(t)
       \/ shutdown_join(t)
       \/ runtime_legion_start(t)
       \/ push_to_local_queue(t)
       \/ start_signal(t)
       \/ runtime_legion_yield(t)
       \/ legion_entry(t)
       \/ legion_exit(t)
       \/ runtime_channel_recv(t)
  \/ \E t \in Workers :
       \/ worker_exit(t)
       \/ worker_pop(t)
       \/ pop_from_local_queue(t)
       \/ steal_read(t)
       \/ steal_from_queue(t)
       \/ worker_park(t)
       \/ worker_wake(t)
       \/ worker_dispatch(t)
       \/ worker_after_switch(t)

SpecShut == InitShut /\ [][NextShut]_vars

\* the programs that only spawn
InitSpawn == InitWith({ ProgSpawn(s1, s2) : s1 \in StackRequests, s2 \in StackRequests })

NextSpawn == \E t \in Threads : runtime_legion_spawn(t)

SpecSpawn == InitSpawn /\ [][NextSpawn]_vars

----------------------------------------------------------------------------
(* Vocabulary of the properties *)

\* no jump through the uninitialised scheduler context has been made yet
Defined == ~crashed /\ ~ub

IsPrefix(a, b) == Len(a) <= Len(b) /\ \A i \in 1 .. Len(a) : a[i] = b[i]

\* the slots of queue q between head and tail
LiveSlots(q) ==
  { i \in 0 .. (LEGION_QUEUE_SIZE - 1) :
      (i - queue_head[q] + LEGION_QUEUE_SIZE) % LEGION_QUEUE_SIZE
        < (queue_tail[q] - queue_head[q] + LEGION_QUEUE_SIZE) % LEGION_QUEUE_SIZE }

QueueRefs(l) ==
  Cardinality({ qi \in Workers \X (0 .. (LEGION_QUEUE_SIZE - 1)) :
                  qi[2] \in LiveSlots(qi[1]) /\ run_queue[qi[1]][qi[2]] = l })

\* how often l is met walking a park list from first, at most fuel links
RECURSIVE ListRefs(_, _, _)
ListRefs(first, l, fuel) ==
  IF first = NULL \/ fuel = 0 THEN 0
  ELSE (IF first = l THEN 1 ELSE 0) + ListRefs(lg[first].next, l, fuel - 1)

RECURSIVE ParkRefsIn(_, _)
ParkRefsIn(S, l) ==
  IF S = {} THEN 0
  ELSE LET c == CHOOSE x \in S : TRUE
       IN ListRefs(ch[c].blocked_senders, l, Cardinality(Legions))
            + ListRefs(ch[c].blocked_receivers, l, Cardinality(Legions))
            + ParkRefsIn(S \ {c}, l)

ParkRefs(l) == ParkRefsIn(Channels, l)

CurrentRefs(l) == Cardinality({ t \in Workers : current_legion[t] = l })

Parked(l) == ParkRefs(l) > 0

\* the threads running on l's stack
Hosts(l) == { t \in Threads : th[t].host = l }

\* a thread is inside start / push / yield with l in hand, or a worker is
\* between taking l from a queue and dispatching it
InHand(l) ==
  \E t \in Threads :
    \/ th[t].pc \in {"push_write", "start_signal", "start_slow", "yield_fin"} /\ th[t].arg = l
    \/ th[t].pc \in {"w_pop_store", "w_dispatch"} /\ th[t].legion = l

----------------------------------------------------------------------------
(* C1 .. C10 *)

\* C1: with one sender legion and one receiver the values received are, in
\* order, the values 1 .. CAPACITY + 1 the sender's entry function sends:
\* at every moment the received sequence is a prefix of the sent one
C1_FifoRoundTrip ==
  (prog = ProgFifo /\ Defined) =>
     IsPrefix(rlog, [i \in 1 .. (CAPACITY + 1) |-> i])

\* C2: a legion that parks on a channel does not take its worker with it:
\* while the legion is on a park list no worker thread is still running on
\* the legion's stack, past the yield that was meant to switch away
C2_ParkFreesWorker ==
  \A l \in Legions :
    (Defined /\ Parked(l)) =>
       \A t \in Workers : th[t].host = l => th[t].pc = "yield"

\* C3: a legion's entry function is entered at most once
C3_EnteredOnce ==
  \A l \in Legions : Defined => entries[l] <= 1

\* C4: a started legion that is not in the hands of a running start, yield
\* or dispatch is referenced exactly once (run-queue slot, park list,
\* current_legion slot) unless it is DEAD, and then by nothing
C4_OneReference ==
  \A l \in started :
    (Defined /\ ~InHand(l)) =>
       QueueRefs(l) + ParkRefs(l) + CurrentRefs(l) = (IF lg[l].state = "DEAD" THEN 0 ELSE 1)

\* C5: no legion runs on two worker threads at once
C5_OneWorkerPerLegion ==
  \A l \in Legions : Defined => Cardinality(Hosts(l) \cap Workers) <= 1

\* start(l) has returned: l was submitted and no thread is inside a start
\* or push with l in hand
StartReturned(l) ==
  /\ l \in started
  /\ ~ \E t \in Threads :
         th[t].pc \in {"push_write", "start_signal", "start_slow"} /\ th[t].arg = l

\* C6: a legion whose push wrote its queue slot and whose start has
\* returned sits in exactly one run-queue slot until a worker takes it (it
\* is in a worker's hand on the way to dispatch, or has been entered)
C6_PushNotLost ==
  \A l \in started :
    ( /\ Defined
      /\ StartReturned(l)
      /\ l \in enqueued
      /\ entries[l] = 0
      /\ ~ \E t \in Workers : th[t].pc = "w_dispatch" /\ th[t].legion = l )
    => QueueRefs(l) = 1

\* C7: start never returns with the legion on no queue: once start(l) has
\* returned, some push (lock-free or under the queue mutex) has written l
\* into a run-queue slot
C7_StartNeverDrops ==
  \A l \in started : StartReturned(l) => l \in enqueued

\* C8, as far as a finite run shows it: the ping-pong program does not come
\* to a stop before both of its legions have run to completion
C8_PingPongCompletes ==
  (prog = ProgPingPong /\ crashed) =>
     (lg[1].state = "DEAD" /\ lg[2].state = "DEAD")

\* C9: the number of buffered elements of every channel stays within
\* 0 .. CAPACITY
C9_CountInRange ==
  \A c \in Channels : ch[c].count >= 0 /\ ch[c].count <= CAPACITY

\* the buffer of channel 1 is full, a sender legion is parked on it, and the
\* main thread's try_send has been turned away
C9_Witness ==
  /\ prog = ProgClose
  /\ ch[1].count = CAPACITY
  /\ ch[1].closed = 0
  /\ ch[1].blocked_senders = 1
  /\ th[MainThread].ip = 3

\* a thread takes a step of a receiving operation on channel c
RecvStep(c) ==
  \E t \in Threads :
    /\ th'[t] # th[t]
    /\ th[t].pc \in {"op", "recv_relock", "recv_wait"}
    /\ th[t].ip <= Len(prog[th[t].host])
    /\ CurOp(t).op \in {"recv", "try_recv"}
    /\ CurOp(t).a = c

\* C10: no step taken while a channel is closed writes its buffer, moves
\* its tail or raises its count, and only a receiving operation moves its
\* head or lowers its count
C10_ClosedTakesNothing ==
  [][ \A c \in Channels :
        ch[c].closed # 0 =>
          /\ ch'[c].buffer = ch[c].buffer
          /\ ch'[c].tail = ch[c].tail
          /\ ch'[c].count <= ch[c].count
          /\ (ch'[c].head # ch[c].head \/ ch'[c].count # ch[c].count) => RecvStep(c) ]_vars

\* channel 1 was closed while the sender legion was parked on its full
\* buffer; since then the legion's sends, the main thread's try_send and its
\* send have all returned, no receive has been made, and the buffer still
\* holds CAPACITY elements
C10_Witness ==
  /\ prog = ProgClose
  /\ ch[1].closed = 1
  /\ ch[1].blocked_senders = 1
  /\ ch[1].count = CAPACITY
  /\ th[MainThread].ip = 6
  /\ rlog = << >>
  /\ \E t \in Workers : th[t].host = 1 /\ th[t].ip > CAPACITY + 1

----------------------------------------------------------------------------
(* C11 .. C20 *)

\* thread t takes the step of runtime_channel_recv that holds the mutex
RecvBy(t) == InRecv(t) /\ th'[t] # th[t]

\* what ProgDrain sends before it closes, and the null that follows
Drained == [i \in 1 .. (CAPACITY + 1) |-> IF i <= CAPACITY THEN i ELSE NULL]

\* C11: a recv on a closed channel neither waits nor parks; it returns the
\* value at the head of the buffer and removes it, or null when the buffer
\* is empty; so the values buffered at close come out in order, then null
C11_ClosedRecvDrains ==
  [][ /\ \A t \in Threads :
           (RecvBy(t) /\ ch[OpChannel(t)].closed # 0) =>
             LET c == OpChannel(t)
                 C == ch[c]
             IN /\ th'[t].pc \notin {"recv_wait", "yield"}
                /\ rlog' = Append(rlog, IF C.count > 0 THEN C.buffer[C.head] ELSE NULL)
                /\ IF C.count > 0
                     THEN /\ ch'[c].count = C.count - 1
                          /\ ch'[c].head = (C.head + 1) % CAPACITY
                          /\ ch'[c].buffer = C.buffer
                     ELSE ch'[c] = C
      /\ prog = ProgDrain => IsPrefix(rlog', Drained) ]_vars

\* ProgDrain has received everything it had sent and then a null
C11_Witness == prog = ProgDrain /\ rlog = Drained

\* thread t takes the step of runtime_channel_is_closed
IsClosedBy(t) == AtOp(t, "is_closed") /\ th'[t] # th[t]

\* C12: closing is monotonic: no step takes a channel's closed flag from
\* nonzero back to 0, and a runtime_channel_is_closed call made while the
\* flag is nonzero returns true, so once one call has returned true every
\* later call returns true
C12_ClosedStays ==
  [][ /\ \A c \in Channels : ch[c].closed # 0 => ch'[c].closed # 0
      /\ \A t \in Threads :
           IsClosedBy(t) => (th'[t].rv # 0) = (ch[OpChannel(t)].closed # 0) ]_vars

\* ProgDrain has closed its channel twice and asked a third time: true
C12_Witness ==
  /\ prog = ProgDrain
  /\ th[MainThread].ip = CAPACITY + 6
  /\ th[MainThread].rv = 1
  /\ ch[1].closed = 1

\* thread t takes the step of runtime_channel_try_send / _try_recv
TrySendBy(t) == AtOp(t, "try_send") /\ th'[t] # th[t]

TryRecvBy(t) == AtOp(t, "try_recv") /\ th'[t] # th[t]

\* C13: a runtime_channel_try_send on a channel that is open and not full
\* returns 1, stores the value at the tail and adds one to the count; a
\* runtime_channel_try_recv on a channel that holds a value, closed or not,
\* returns 1, delivers the head value and takes one from the count
C13_TryProceeds ==
  [][ \A t \in Threads :
        LET c == OpChannel(t)
            C == ch[c]
        IN /\ (TrySendBy(t) /\ C.closed = 0 /\ C.count < CAPACITY) =>
                /\ th'[t].rv = 1
                /\ ch'[c].buffer = [C.buffer EXCEPT ![C.tail] = CurOp(t).b]
                /\ ch'[c].tail = (C.tail + 1) % CAPACITY
                /\ ch'[c].head = C.head
                /\ ch'[c].count = C.count + 1
           /\ (TryRecvBy(t) /\ C.count > 0) =>
                /\ th'[t].rv = 1
                /\ th'[t].out = C.buffer[C.head]
                /\ ch'[c].head = (C.head + 1) % CAPACITY
                /\ ch'[c].tail = C.tail
                /\ ch'[c].count = C.count - 1 ]_vars

\* ProgTry has taken, from the channel it had closed, the value its last
\* successful try_send put there
C13_Witness ==
  /\ prog = ProgTry
  /\ ch[1].closed = 1
  /\ ch[1].count = 0
  /\ th[MainThread].ip = Len(prog[0])
  /\ th[MainThread].rv = 1
  /\ th[MainThread].out = 1

\* C14: a try operation that cannot proceed returns 0, leaves the channel
\* (buffer, head, tail, count, closed flag, waiters) as it was and returns to
\* its caller without parking or waiting.  runtime_channel_try_send returns 0
\* when the channel is full or closed; runtime_channel_try_recv returns 0
\* when the count is 0, leaving the caller's variable alone on an open
\* channel and writing null to it on a closed one
C14_TryRefuses ==
  [][ \A t \in Threads :
        LET c == OpChannel(t)
            C == ch[c]
        IN /\ (TrySendBy(t) /\ (C.closed # 0 \/ C.count >= CAPACITY)) =>
                /\ th'[t].rv = 0
                /\ ch' = ch
                /\ lg' = lg
                /\ th'[t] = [NextOp(th[t]) EXCEPT !.rv = 0]
           /\ (TryRecvBy(t) /\ C.count = 0) =>
                /\ th'[t].rv = 0
                /\ ch' = ch
                /\ lg' = lg
                /\ th'[t].out = (IF C.closed = 0 THEN th[t].out ELSE NULL)
                /\ th'[t] = [NextOp(th[t]) EXCEPT !.rv = 0, !.out = th'[t].out] ]_vars

\* ProgTry: the last try_recv found the closed channel empty and wrote null
\* over the value the one before it had delivered
C14_Witness ==
  /\ prog = ProgTry
  /\ ch[1].closed = 1
  /\ th[MainThread].ip = Len(prog[0]) + 1
  /\ th[MainThread].rv = 0
  /\ th[MainThread].out = NULL

\* worker t, running legion l as its current legion, takes the first step of
\* a runtime_legion_yield() call that l's entry function made
YieldBy(t, l) ==
  /\ Running(t, "yield")
  /\ th[t].yret = "op"
  /\ th[t].host = l
  /\ current_legion[t] = l
  /\ lg[l].state = "RUNNING"
  /\ th'[t] # th[t]

\* C15: on every worker, a runtime_legion_yield() called by the RUNNING
\* legion the worker has dispatched sets the legion RUNNABLE and goes on to
\* put it in a run-queue slot; it never returns at once and never leaves the
\* legion on no queue
C15_YieldRequeues ==
  [][ \A t \in Workers : \A l \in Legions :
        YieldBy(t, l) => /\ lg'[l].state = "RUNNABLE"
                         /\ th'[t].pc = "push_write" ]_vars

\* C16: while a legion dispatched by worker t is executing on t, for every
\* worker t, runtime_get_current_legion() called there returns that legion;
\* called on a thread that is no worker it returns NULL
C16_CurrentLegionSeen ==
  /\ \A t \in Workers : \A l \in Legions :
       (th[t].host = l /\ current_legion[t] = l /\ lg[l].state = "RUNNING")
         => runtime_get_current_legion(t) = l
  /\ runtime_get_current_legion(MainThread) = NULL

\* thread t, with no legion in a slot of its own, takes the first step of
\* runtime_legion_yield
IdleYieldBy(t) ==
  /\ Running(t, "yield")
  /\ t \in Workers => current_legion[t] = NULL
  /\ th'[t] # th[t]

\* C17: runtime_legion_yield() on a thread that has no current legion (a
\* thread that is no worker, or a worker whose slot is empty) does nothing:
\* run queues, current_legion, legion records and active_legions keep their
\* values and the caller goes on at its return address, on the same stack
C17_IdleYieldNoOp ==
  [][ \A t \in Threads :
        IdleYieldBy(t) => /\ UNCHANGED << queueVars, current_legion, lg, active_legions >>
                          /\ UNCHANGED << ch, crashed, ub >>
                          /\ th'[t] = yield_return(th[t])
                          /\ th'[t].host = th[t].host ]_vars

\* ProgTry's main thread is past its yield(), and in ProgClose a worker
\* whose slot runtime_legion_block had emptied is past the yield that follows
C17_Witness ==
  \/ /\ prog = ProgTry
     /\ th[MainThread].ip = 2 * CAPACITY + 5
     /\ th[MainThread].pc = "op"
  \/ /\ prog = ProgClose
     /\ \E t \in Workers : /\ valid_thread_id(get_thread_id(t))
                           /\ th[t].host = 1
                           /\ th[t].pc = "send_relock"
                           /\ current_legion[t] = NULL

\* the state changes a legion may make
LegalMoves ==
  { << "RUNNABLE", "RUNNING" >>, << "RUNNING", "RUNNABLE" >>,
    << "RUNNING", "BLOCKED" >>, << "BLOCKED", "RUNNABLE" >>,
    << "RUNNING", "DEAD" >> }

\* C18: a legion's state changes only RUNNABLE -> RUNNING, RUNNING ->
\* RUNNABLE, RUNNING -> BLOCKED, BLOCKED -> RUNNABLE or RUNNING -> DEAD; a
\* DEAD legion never changes state and is never dispatched again
C18_LegalMoves ==
  [][ \A l \in Legions :
        /\ lg'[l].state # lg[l].state => << lg[l].state, lg'[l].state >> \in LegalMoves
        /\ lg[l].state = "DEAD" => entries'[l] = entries[l] ]_vars

\* legion l has parked in a send or recv on a channel that has since been
\* closed, and the call has not yet returned
ParkedOnClosed(l) ==
  /\ lg[l].state = "BLOCKED"
  /\ Parked(l)
  /\ \E t \in Hosts(l) :
       /\ th[t].pc \in {"yield", "send_relock", "send_wait", "recv_relock", "recv_wait"}
       /\ ch[OpChannel(t)].closed # 0

\* C19: once a channel is closed every legion parked on it goes on to return
\* from its send or recv, so the process never comes to its end with a legion
\* still parked on a closed channel
C19_ClosedWakesParked ==
  crashed => \A l \in Legions : ~ParkedOnClosed(l)

\* thread t takes the step of runtime_scheduler_init
InitBy(t) == AtOp(t, "init") /\ th'[t] # th[t]

\* C20: runtime_scheduler_init() called when a scheduler exists changes
\* nothing: the run queues with their heads and tails, the workers' slots,
\* active_legions, the legions and the channels keep their values, and there
\* stays one Scheduler with MAX_OS_THREADS worker threads
C20_InitIdempotent ==
  [][ /\ \A t \in Threads :
           InitBy(t) => /\ UNCHANGED << queueVars, current_legion, active_legions >>
                        /\ UNCHANGED << lg, ch, schedulers, os_threads >>
      /\ schedulers' = 1
      /\ os_threads' = MAX_OS_THREADS ]_vars

\* ProgInit has called runtime_scheduler_init twice after submitting a
\* legion, and the tail of the queue the legion went to is still advanced
C20_Witness ==
  /\ prog = ProgInit
  /\ th[MainThread].ip = 4
  /\ started = {1}
  /\ \E q \in Workers : queue_tail[q] = 1
  /\ schedulers = 1

----------------------------------------------------------------------------
(* C21 .. C30 *)

\* runtime_scheduler_shutdown has returned to the main thread
ShutdownReturned == shutdown # 0 /\ th[MainThread].pc = "op"

AllWorkersExited == \A t \in Workers : th[t].pc = "w_exit"

\* C21: once runtime_scheduler_shutdown is called every worker comes to
\* leave its loop and the call returns, and it returns only after all the
\* workers have left: the process, unless it has died or a legion is still
\* RUNNING, never comes to rest with the flag set and the call still waiting
C21_ShutdownReturns ==
  /\ ShutdownReturned => AllWorkersExited
  /\ ( /\ shutdown # 0
       /\ ~crashed
       /\ \A l \in Legions : lg[l].state # "RUNNING"
       /\ ~ENABLED NextShut ) => ShutdownReturned

\* C22: whatever stack size is asked for, the legion runtime_legion_spawn
\* returns has a stack size between LEGION_STACK_SIZE (256 KiB) and
\* LEGION_STACK_MAX (2 MiB)
C22_StackClamped ==
  \A l \in Legions :
    lg[l].stack_size >= LEGION_STACK_SIZE /\ lg[l].stack_size <= LEGION_STACK_MAX

\* worker t completes a pop of its own queue / a steal from queue v, and
\* returns a legion
PopBy(t) == Running(t, "w_pop_store") /\ th'[t].pc = "w_dispatch"

StealBy(t, v) ==
  /\ Running(t, "w_steal_cas")
  /\ v = (t + th[t].k + 1) % MAX_OS_THREADS
  /\ th'[t].pc = "w_dispatch"

\* C23: however the owner's pops and the other workers' steals interleave,
\* a pop or steal that returns a legion advances the head of its queue by
\* exactly one and returns the reference that is in the head slot at that
\* moment, so no reference is handed out twice and none is skipped
C23_TakenOnce ==
  [][ \A t \in Workers :
        /\ PopBy(t) =>
             /\ queue_head'[t] = (queue_head[t] + 1) % LEGION_QUEUE_SIZE
             /\ th'[t].legion = run_queue[t][queue_head[t]]
        /\ \A v \in Workers :
             StealBy(t, v) =>
               /\ queue_head'[v] = (queue_head[v] + 1) % LEGION_QUEUE_SIZE
               /\ th'[t].legion = run_queue[v][queue_head[v]] ]_vars

\* C24: a channel has parked senders only while its buffer is full and
\* parked receivers only while it is empty, so its two park lists are never
\* both occupied
C24_ParkListsMatchCount ==
  \A c \in Channels :
    /\ ch[c].blocked_senders # NULL => ch[c].count = CAPACITY
    /\ ch[c].blocked_receivers # NULL => ch[c].count = 0
    /\ ch[c].blocked_senders = NULL \/ ch[c].blocked_receivers = NULL

\* thread t, on the stack of a legion, makes the context switch that ends
\* runtime_legion_yield or legion_entry
SwitchBackBy(t) ==
  /\ ~crashed
  /\ th[t].pc \in {"yield_fin", "dead_switch"}
  /\ th[t].host # 0
  /\ th'[t] # th[t] \/ crashed' # crashed

\* C25: the switch a legion makes when it yields or dies takes its thread
\* to the point after the dispatch switch in the worker loop, through a
\* context that the dispatch has saved: the jump is never through an
\* uninitialised context and never ends the process
C25_SwitchBackDefined ==
  [][ \A t \in Threads :
        SwitchBackBy(t) => /\ th'[t].pc = "w_after"
                           /\ th'[t].host = 0
                           /\ ~crashed'
                           /\ ~ub' ]_vars

\* thread t, running legion l, takes the step of send or recv on channel c
\* that parks l
ParkBy(t, l, c) ==
  /\ InSend(t) \/ InRecv(t)
  /\ th[t].host = l
  /\ c = OpChannel(t)
  /\ th'[t].pc = "yield"

\* thread t holds a channel mutex or a run-queue mutex
HoldsMutex(t) ==
  \/ \E c \in Channels : ch[c].mutex = t
  \/ \E q \in Workers : queue_mutex[q] = t

\* C26: when a legion parks in send or recv it is linked into the park
\* list and marked BLOCKED on the channel, and the channel mutex is released,
\* before it calls yield; and no thread holds a channel mutex or a queue
\* mutex when it calls yield or switches out of a legion
C26_ParkOrder ==
  [][ \A t \in Threads :
        /\ \A l \in Legions : \A c \in Channels :
             ParkBy(t, l, c) =>
               /\ l \in {ch'[c].blocked_senders, ch'[c].blocked_receivers}
               /\ lg'[l].state = "BLOCKED"
               /\ lg'[l].blocked_on = c
               /\ ch'[c].mutex = Unlocked
        /\ th'[t].pc \in {"yield", "yield_fin", "dead_switch"} => ~HoldsMutex(t)' ]_vars

\* a legion has parked on channel 1 and its thread is about to call yield
C26_Witness ==
  \E t \in Workers :
    /\ th[t].pc = "yield"
    /\ th[t].yret \in {"send", "recv"}
    /\ th[t].host # 0
    /\ lg[th[t].host].state = "BLOCKED"
    /\ lg[th[t].host].blocked_on = 1
    /\ th[t].host \in {ch[1].blocked_senders, ch[1].blocked_receivers}
    /\ ch[1].mutex = Unlocked

\* thread t takes the step of a send that stores its value / of a recv that
\* takes one, on channel c
SendStoresBy(t, c) ==
  /\ InSend(t)
  /\ c = OpChannel(t)
  /\ ch[c].count < CAPACITY /\ ch[c].closed = 0
  /\ th'[t] # th[t]

RecvTakesBy(t, c) ==
  /\ InRecv(t)
  /\ c = OpChannel(t)
  /\ ch[c].count > 0
  /\ th'[t] # th[t]

\* thread t wakes legion r, the head of a park list whose rest is `rest`
Wakes(t, r, rest) ==
  /\ rest = lg[r].next
  /\ lg'[r].next = NULL
  /\ \A x \in Legions \ {r} : lg'[x] = lg[x]
  /\ lg[r].state = "BLOCKED" =>
       /\ lg'[r].state = "RUNNABLE"
       /\ lg'[r].blocked_on = NULL
       /\ th'[t].arg = r
       /\ th'[t].pc \in {"push_write", "start_slow"}

UnblockBy(t) ==
  \E c \in Channels :
    \/ /\ SendStoresBy(t, c)
       /\ ch[c].blocked_receivers # NULL
       /\ lg[ch[c].blocked_receivers].state = "BLOCKED"
    \/ /\ RecvTakesBy(t, c)
       /\ ch[c].blocked_senders # NULL
       /\ lg[ch[c].blocked_senders].state = "BLOCKED"

\* the started legions that are neither BLOCKED nor DEAD
ActiveLegions == { l \in started : lg[l].state \notin {"BLOCKED", "DEAD"} }

\* C28: active_legions counts the started legions that are neither BLOCKED
\* nor DEAD: waking a parked legion adds exactly 1 to it, so that a park
\* followed by a wake-up restores its value, and it is never negative
C28_ActiveCount ==
  [][ /\ \A t \in Threads : UnblockBy(t) => active_legions' = active_legions + 1
      /\ (active_legions = Cardinality(ActiveLegions) /\ Defined')
            => active_legions' = Cardinality(ActiveLegions')
      /\ active_legions' >= 0 ]_vars

\* C29: blocked_on of a legion is set exactly while the legion is BLOCKED,
\* and then names the channel on one of whose park lists the legion is; a
\* legion that is executing its entry function again after a blocking send
\* or recv, and a DEAD legion, have blocked_on cleared
C29_BlockedOnMatchesState ==
  \A l \in Legions :
    /\ (lg[l].blocked_on # NULL) = (lg[l].state = "BLOCKED")
    /\ lg[l].state = "BLOCKED" => ParkRefsIn({lg[l].blocked_on}, l) > 0
    /\ \A t \in Hosts(l) : th[t].pc = "op" => lg[l].blocked_on = NULL

\* C30: for every worker t and legion l, current_legion[t] = l only while l
\* is RUNNING with thread_id = t, and the thread_id of a legion that is in no
\* worker's slot is -1 (looked at while the process is alive and no thread
\* is in the middle of a start, push, yield, pop or dispatch of l)
C30_CurrentMatchesLegion ==
  \A l \in Legions :
    (~crashed /\ ~InHand(l)) =>
      /\ \A t \in Workers :
           current_legion[t] = l => (lg[l].state = "RUNNING" /\ lg[l].thread_id = t)
      /\ CurrentRefs(l) = 0 => lg[l].thread_id = -1

----------------------------------------------------------------------------
(* C31 .. C38 *)

\* worker t sits in pthread_cond_wait on a channel's condition variable, on
\* the stack of the legion it dispatched
CondWaiting(t) ==
  \/ th[t].pc = "send_wait" /\ t \in ch[OpChannel(t)].not_full
  \/ th[t].pc = "recv_wait" /\ t \in ch[OpChannel(t)].not_empty

\* C31, as far as a finite run shows it: with no shutdown requested and no
\* legion running on (its suspension is what the legion last asked for), the
\* run does not come to a stop while a RUNNABLE legion sits in a live slot of
\* a run queue, waiting for a worker to dispatch it
C31_QueuedIsDispatched ==
  (~crashed /\ shutdown = 0 /\ prog = ProgStarve /\ ~ENABLED Next
     /\ \A t \in Workers : CondWaiting(t)) =>
     \A l \in Legions : lg[l].state = "RUNNABLE" => QueueRefs(l) = 0

\* head and tail of channel c are buffer indices and differ by count
RingShape(c) ==
  LET C == ch[c] IN
    /\ C.head \in 0 .. (CAPACITY - 1)
    /\ C.tail \in 0 .. (CAPACITY - 1)
    /\ C.count # CAPACITY => (C.tail - C.head + CAPACITY) % CAPACITY = C.count
    /\ C.count = CAPACITY => C.head = C.tail

\* a step moves the indices of channel c only as one enqueue or one dequeue
RingStep(c) ==
  LET C == ch[c] IN
    /\ ch'[c].count \in {C.count - 1, C.count, C.count + 1}
    /\ ch'[c].count = C.count + 1 =>
         ch'[c].tail = (C.tail + 1) % CAPACITY /\ ch'[c].head = C.head
    /\ ch'[c].count = C.count - 1 =>
         ch'[c].head = (C.head + 1) % CAPACITY /\ ch'[c].tail = C.tail
    /\ ch'[c].count = C.count => ch'[c].head = C.head /\ ch'[c].tail = C.tail

\* C32: in every reachable state head and tail of every channel are below
\* the capacity, (tail - head + capacity) mod capacity is count unless the
\* buffer is full, and head = tail when it is full; an enqueue advances tail
\* alone by one mod capacity, a dequeue advances head alone by one mod
\* capacity, and no other step moves either index
C32_RingIndices ==
  /\ [](\A c \in Channels : RingShape(c))
  /\ [][\A c \in Channels : RingStep(c)]_vars

\* tail of channel 1 has wrapped round to 0 while head is at the last
\* index: the one buffered element lies at the end of the buffer and
\* tail - head is negative
C32_Witness ==
  /\ ch[1].count = 1
  /\ ch[1].head = CAPACITY - 1
  /\ ch[1].tail = 0

\* push_to_local_queue's test for a full queue, on the queue as it is now
QFull(q) == (queue_tail[q] + 1) % LEGION_QUEUE_SIZE = queue_head[q]

\* head and tail of queue q are slot indices, the queue is empty exactly
\* when they are equal, and it holds at most LEGION_QUEUE_SIZE - 1 legions
QueueShape(q) ==
  /\ queue_head[q] \in 0 .. (LEGION_QUEUE_SIZE - 1)
  /\ queue_tail[q] \in 0 .. (LEGION_QUEUE_SIZE - 1)
  /\ get_queue_length(q) = Cardinality(LiveSlots(q))
  /\ LiveSlots(q) = {} <=> queue_head[q] = queue_tail[q]
  /\ Cardinality(LiveSlots(q)) <= LEGION_QUEUE_SIZE - 1

\* thread t makes push_to_local_queue's loads and test in this step: it goes
\* on to the write only if it found room, and if it found the queue full it
\* comes back with failure (start turns to its mutex path)
PushTest(t) ==
  /\ (th[t].pc # "push_write" /\ th'[t].pc = "push_write") =>
        ~QFull(th'[t].q) /\ UNCHANGED queueVars
  /\ (th[t].pc # "start_slow" /\ th'[t].pc = "start_slow") =>
        QFull(th'[t].q) /\ UNCHANGED queueVars

\* C33: head and tail of every run queue stay within 0 .. LEGION_QUEUE_SIZE - 1,
\* a queue is empty iff head = tail and holds at most LEGION_QUEUE_SIZE - 1
\* legions, and a push that meets (tail + 1) mod LEGION_QUEUE_SIZE = head
\* reports failure and leaves head, tail and every slot as they were
C33_QueueIndices ==
  /\ [](\A q \in Workers : QueueShape(q))
  /\ [][\A t \in Threads : PushTest(t)]_vars

\* a push has just met a full queue: the caller is on start's mutex path and
\* the queue is as full as it was
C33_Witness ==
  \E t \in Threads :
    /\ th[t].pc = "start_slow"
    /\ QFull(th[t].q)
    /\ Cardinality(LiveSlots(th[t].q)) = LEGION_QUEUE_SIZE - 1

\* thread t takes the step of runtime_channel_close
CloseBy(t) == AtOp(t, "close") /\ th'[t] # th[t]

\* C34: close changes the closed flag and nothing else of the channel or of
\* the legions: buffer, head, tail, count and the two park lists are as
\* before, every legion (parked or not) keeps its state and its links, and
\* no run queue receives a legion
C34_CloseFrame ==
  [][ \A t \in Threads :
        CloseBy(t) =>
          LET c == OpChannel(t) IN
            /\ ch'[c].buffer = ch[c].buffer
            /\ ch'[c].head = ch[c].head
            /\ ch'[c].tail = ch[c].tail
            /\ ch'[c].count = ch[c].count
            /\ ch'[c].blocked_senders = ch[c].blocked_senders
            /\ ch'[c].blocked_receivers = ch[c].blocked_receivers
            /\ \A d \in Channels \ {c} : ch'[d] = ch[d]
            /\ lg' = lg
            /\ UNCHANGED << queueVars, current_legion, active_legions, rlog >> ]_vars

\* close has run on a channel with a legion parked on it: the legion is
\* still BLOCKED and still the head of the park list of the closed channel
C34_Witness ==
  \E l \in Legions :
    /\ ch[1].closed # 0
    /\ (ch[1].blocked_senders = l \/ ch[1].blocked_receivers = l)
    /\ lg[l].state = "BLOCKED"
    /\ lg[l].blocked_on = 1
    /\ QueueRefs(l) = 0

\* no thread other than t is in the middle of a push, a pop or a steal, and
\* queue q is as t's start found it
Quiescent(t, q) ==
  /\ \A u \in Threads \ {t} :
       th[u].pc \notin {"push_write", "start_slow", "start_signal", "w_pop_store", "w_steal_cas"}
  /\ queue_tail[q] = th[t].snap

\* q is the lowest-numbered queue among those of minimal length
LeastLoaded(q) ==
  \A i \in Workers :
    /\ get_queue_length(q) <= get_queue_length(i)
    /\ get_queue_length(i) = get_queue_length(q) => q <= i

\* thread t enters runtime_legion_start(l) and chooses the queue
StartChoiceBy(t) ==
  /\ th[t].pc \notin {"push_write", "start_slow"}
  /\ th'[t].pc \in {"push_write", "start_slow"}
  /\ th'[t].ret # "yield"

\* thread t, inside runtime_legion_start(l), makes the step that ends the
\* push (the lock-free write, or the mutex path after a failed push)
StartPushBy(t) ==
  /\ ~crashed
  /\ th[t].pc \in {"push_write", "start_slow"}
  /\ th[t].ret # "yield"
  /\ th'[t] # th[t]

\* C35: start(l) chooses the queue that is least loaded (lowest index among
\* ties), and with the run queues quiescent (nobody else in the middle of a
\* queue operation, the chosen queue still as it was found and still the
\* least loaded) it pushes l onto that queue and changes no other queue
C35_StartPicksLeastLoaded ==
  [][ \A t \in Threads :
        /\ StartChoiceBy(t) => LeastLoaded(th'[t].q)
        /\ (StartPushBy(t) /\ Quiescent(t, th[t].q) /\ LeastLoaded(th[t].q)) =>
             LET q == th[t].q IN
               /\ run_queue'[q][queue_tail[q]] = th[t].arg
               /\ queue_tail'[q] = (queue_tail[q] + 1) % LEGION_QUEUE_SIZE
               /\ queue_head' = queue_head
               /\ \A i \in Workers \ {q} :
                    run_queue'[i] = run_queue[i] /\ queue_tail'[i] = queue_tail[i] ]_vars

\* one step of worker t's loop, from record r to record r2
LoopOrder(t, r, r2) ==
  LET victim == (t + r.k + 1) % MAX_OS_THREADS IN
    \* 1. the iteration starts with the local pop; the steal loop starts, at
    \* attempt 0, only if the local queue was empty
    /\ (r.pc = "w_top" /\ r2 # r /\ r2.pc # "w_exit") =>
          IF queue_head[t] = queue_tail[t]
            THEN r2.pc = "w_steal" /\ r2.k = 0 /\ r2.legion = NULL
            ELSE r2.pc = "w_pop_store" /\ r2.legion = run_queue[t][queue_head[t]]
    \* 2. the attempts are numbered 0, 1, ... in order, each on the queue
    \* (t + attempt + 1) mod MAX_OS_THREADS, never on t's own
    /\ (r2.pc = "w_steal" /\ r2 # r) =>
          \/ r.pc = "w_top" /\ r2.k = 0
          \/ r.pc \in {"w_steal", "w_steal_cas"} /\ r2.k = r.k + 1
    /\ (r.pc \in {"w_steal", "w_steal_cas"} /\ r2 # r) =>
          /\ victim # t
          /\ r.k < WORK_STEAL_ATTEMPTS
          /\ queue_head'[t] = queue_head[t]
    \* the first hit ends the loop: the legion comes from the victim's head
    /\ (r.pc = "w_steal_cas" /\ r2.pc = "w_dispatch") =>
          /\ r2.legion = run_queue[victim][queue_head[victim]]
          /\ queue_head'[victim] = (queue_head[victim] + 1) % LEGION_QUEUE_SIZE
    \* 3. the park section is entered only after the last attempt has missed,
    \* and the wait only when the pop under the mutex finds nothing either
    /\ (r2.pc = "w_park" /\ r.pc # "w_park") =>
          r.pc \in {"w_steal", "w_steal_cas"} /\ r.k = WORK_STEAL_ATTEMPTS - 1
    /\ (r2.pc = "w_wait" /\ r.pc # "w_wait") =>
          r.pc = "w_park" /\ queue_head[t] = queue_tail[t]

C37_TryWakesParked ==
  (prog = ProgTryPark /\ th[MainThread].ip > 2 /\ th[MainThread].rv = 1) =>
     \A l \in Legions :
        lg[l].state = "DEAD" => (~Parked(l) /\ lg[l].blocked_on = NULL)

\* thread t is at a pthread_mutex_lock (or at the re-acquisition that ends a
\* pthread_cond_wait) of channel c's mutex
AtChannelLock(t, c) ==
  /\ ~crashed
  /\ \/ /\ th[t].pc = "op"
        /\ th[t].ip <= Len(prog[th[t].host])
        /\ CurOp(t).op \in {"send", "recv", "try_send", "try_recv", "close"}
     \/ th[t].pc \in {"send_relock", "recv_relock"}
     \/ th[t].pc = "send_wait" /\ t \notin ch[OpChannel(t)].not_full
     \/ th[t].pc = "recv_wait" /\ t \notin ch[OpChannel(t)].not_empty
  /\ c = OpChannel(t)

\* thread t is at a pthread_mutex_lock (or at the re-acquisition that ends
\* pthread_cond_timedwait) of queue q's mutex
AtQueueLock(t, q) ==
  /\ ~crashed
  /\ \/ th[t].pc \in {"start_signal", "start_slow"} /\ q = th[t].q
     \/ th[t].pc \in {"w_park", "w_wait"} /\ q = t

\* thread t waits for a mutex that thread u holds
WaitsFor(t, u) ==
  \/ \E c \in Channels : AtChannelLock(t, c) /\ ch[c].mutex = u
  \/ \E q \in Workers : AtQueueLock(t, q) /\ queue_mutex[q] = u

\* u is reached from t along at most n wait-for edges
RECURSIVE WaitsForWithin(_, _, _)
WaitsForWithin(t, u, n) ==
  /\ n > 0
  /\ \/ WaitsFor(t, u)
     \/ \E v \in Threads : WaitsFor(t, v) /\ WaitsForWithin(v, u, n - 1)

\* C38: a thread that is about to lock a channel mutex holds no queue mutex
\* and no channel mutex, a thread that holds a queue mutex holds no second
\* one, and the wait-for graph of the threads over the channel mutexes and
\* the queue mutexes has no cycle
C38_LockOrder ==
  /\ \A t \in Threads : \A c \in Channels :
        AtChannelLock(t, c) => ~HoldsMutex(t)
  /\ \A t \in Threads : \A q \in Workers :
        AtQueueLock(t, q) => \A p \in Workers : queue_mutex[p] # t
  /\ \A t \in Threads : ~WaitsForWithin(t, t, Cardinality(Threads))

\* a thread inside unblock -> start holds a channel mutex and waits for the
\* mutex of the queue it has pushed to, which the queue's worker holds in
\* its park section
C38_Witness ==
  \E t \in Threads : \E c \in Channels : \E q \in Workers :
    /\ ch[c].mutex = t
    /\ AtQueueLock(t, q)
    /\ queue_mutex[q] = q
    /\ WaitsFor(t, q)

====
